---- MODULE Spec2Model ----
(***************************************************************************)
(* A model of asyncframework.db.redis: the Redis lock (lock.py), the       *)
(* script executor (script.py), the database and its shard selector        *)
(* (database.py), the record store (record.py) and the part of the Redis   *)
(* store they use.  Strings are sequences of one-character strings, so a   *)
(* Python str handed to tuple() is the sequence of its characters.         *)
(***************************************************************************)
EXTENDS Integers, Sequences, FiniteSets, TLC

(***************************************************************************)
(* Bounds of the model                                                     *)
(***************************************************************************)
\* the lock field's expire is drawn from 0..MaxExpire (0: the key never expires)
MaxExpire == 2
\* acquire's timeout argument is drawn from None and -1..MaxTimeout
MaxTimeout == 2
\* operations (acquire, release, reset) called in one behaviour
MaxCalls == 4
\* script executions called in one behaviour of the script executor
MaxScriptCalls == 3

(***************************************************************************)
(* Strings and values                                                      *)
(***************************************************************************)
\* Python's None, and the nil reply of the store
None == <<"None">>
Nil == <<"nil">>
\* the characters of 'signal'
SignalWord == <<"s", "i", "g", "n", "a", "l">>

\* str(uuid4()): the k-th draw of the process; two draws never agree
Uuid4(k) == <<"u", CASE k = 1 -> "1" [] k = 2 -> "2" [] k = 3 -> "3" [] OTHER -> "4">>

(***************************************************************************)
(* The store: existing keys |-> entries.  A string entry has a value v and *)
(* a time to live ttl (0: persistent); a list entry has n elements, every  *)
(* one of them the "1" the lock scripts push.                              *)
(***************************************************************************)
StrEntry(v, ttl) == [t |-> "string", v |-> v, n |-> 0, ttl |-> ttl]
ListEntry(n) == [t |-> "list", v |-> Nil, n |-> n, ttl |-> 0]

Exists(s, k) == k \in DOMAIN s
Put(s, k, e) == [x \in (DOMAIN s) \cup {k} |-> IF x = k THEN e ELSE s[x]]

\* DEL key
Del(s, k) == [x \in (DOMAIN s) \ {k} |-> s[x]]

\* GET key: the value, nil for a missing key, WRONGTYPE for a list
Get(s, k) ==
    IF ~Exists(s, k) THEN [err |-> "", val |-> Nil]
    ELSE IF s[k].t = "string" THEN [err |-> "", val |-> s[k].v]
    ELSE [err |-> "ResponseError", val |-> Nil]

\* SET key value NX [EX expire]: expire = 0 sets no expiry
SetOverwriteMutant(s, k, v, ex) == [ok |-> TRUE, store |-> Put(s, k, StrEntry(v, ex))]
SetNoExpireMutant(s, k, v, ex) ==
    IF Exists(s, k) THEN [ok |-> FALSE, store |-> s]
    ELSE [ok |-> TRUE, store |-> Put(s, k, StrEntry(v, 0))]
SetRefreshMutant(s, k, v, ex) ==
    IF Exists(s, k) THEN [ok |-> FALSE, store |-> Put(s, k, StrEntry(s[k].v, ex))]
    ELSE [ok |-> TRUE, store |-> Put(s, k, StrEntry(v, ex))]
SetIfNotExist(s, k, v, ex) ==
    IF Exists(s, k) THEN [ok |-> FALSE, store |-> s]
    ELSE [ok |-> TRUE, store |-> Put(s, k, StrEntry(v, ex))]

\* LPUSH key 1
LPush(s, k) ==
    IF ~Exists(s, k) THEN [err |-> "", store |-> Put(s, k, ListEntry(1))]
    ELSE IF s[k].t = "list" THEN [err |-> "", store |-> Put(s, k, ListEntry(s[k].n + 1))]
    ELSE [err |-> "ResponseError", store |-> s]

\* the pop of BLPOP key: a list that loses its last element is removed
LPop(s, k) == IF s[k].n = 1 THEN Del(s, k) ELSE Put(s, k, ListEntry(s[k].n - 1))

\* one second passes on the store: every expiring key ages, and is gone at 0
Expire(s) ==
    [x \in {k \in DOMAIN s : s[k].ttl # 1} |->
        IF s[x].ttl = 0 THEN s[x] ELSE [s[x] EXCEPT !.ttl = @ - 1]]

(***************************************************************************)
(* The lock scripts, run atomically by the store on KEYS and ARGV.  A      *)
(* command given a nil argument (a KEYS or ARGV index past the end) makes  *)
(* the script fail; what it did before the failure stays done.             *)
(***************************************************************************)
ScriptReply(exc, ret, s) == [exc |-> exc, ret |-> ret, store |-> s]

\* UnlockScript.code
UnlockScript(s, KEYS, ARGV) ==
    IF Len(KEYS) < 1 THEN ScriptReply("ResponseError", 0, s)
    ELSE LET owner == Get(s, KEYS[1])
             argv1 == IF Len(ARGV) >= 1 THEN ARGV[1] ELSE Nil
         IN  IF owner.err # "" THEN ScriptReply(owner.err, 0, s)
             ELSE IF owner.val = Nil \/ owner.val # argv1 THEN ScriptReply("", 1, s)
             ELSE IF Len(KEYS) < 2 THEN ScriptReply("ResponseError", 0, s)
             ELSE LET s1 == Del(s, KEYS[2])
                      s2 == LPush(s1, KEYS[2]).store
                  IN  ScriptReply("", 0, Del(s2, KEYS[1]))

ResetScriptNoDelMutant(s, KEYS, ARGV) ==
    IF Len(KEYS) < 2 THEN ScriptReply("ResponseError", 0, s)
    ELSE LET s2 == LPush(s, KEYS[2]).store
         IN  ScriptReply("", IF Exists(s2, KEYS[1]) THEN 1 ELSE 0, Del(s2, KEYS[1]))
\* ResetScript.code
ResetScript(s, KEYS, ARGV) ==
    IF Len(KEYS) < 2 THEN ScriptReply("ResponseError", 0, s)
    ELSE LET s1 == Del(s, KEYS[2])
             s2 == LPush(s1, KEYS[2]).store
         IN  ScriptReply("", IF Exists(s2, KEYS[1]) THEN 1 ELSE 0, Del(s2, KEYS[1]))

RunScript(script, s, KEYS, ARGV) ==
    IF script = "UnlockScript" THEN UnlockScript(s, KEYS, ARGV)
    ELSE ResetScript(s, KEYS, ARGV)

(***************************************************************************)
(* RedisScript.__call__(self, keys=None, args=None), called with the       *)
(* positional arguments posargs, each of them a str.  More than two        *)
(* positional arguments do not bind: Python raises TypeError before the    *)
(* body runs.  tuple(keys) + tuple(args) of two strs are their characters. *)
(* EVALSHA runs the cached script; on NoScriptError EVAL runs the source   *)
(* and leaves it cached.                                                   *)
(***************************************************************************)
\* tuple(x) of a str x: its one-character strings
Tuple(x) == [i \in 1..Len(x) |-> <<x[i]>>]

\* what __call__ makes of its positional arguments: the key count and the
\* KEYS and ARGV the command carries, or the TypeError of the call
NoRequest == [made |-> FALSE, exc |-> "", keys_num |-> 0, KEYS |-> <<>>, ARGV |-> <<>>]
ScriptRequest(posargs) ==
    IF Len(posargs) > 2
    THEN [made |-> TRUE, exc |-> "TypeError", keys_num |-> 0, KEYS |-> <<>>, ARGV |-> <<>>]
    ELSE LET keys == IF Len(posargs) >= 1 THEN posargs[1] ELSE <<>>
             args == IF Len(posargs) >= 2 THEN posargs[2] ELSE <<>>
             keys_args == Tuple(keys) \o Tuple(args)
         IN  [made |-> TRUE, exc |-> "", keys_num |-> Len(keys),
              KEYS |-> SubSeq(keys_args, 1, Len(keys)),
              ARGV |-> SubSeq(keys_args, Len(keys) + 1, Len(keys_args))]

RedisScriptCall(script, posargs, s, cached) ==
    IF Len(posargs) > 2
    THEN [exc |-> "TypeError", ret |-> 0, store |-> s, cache |-> cached]
    ELSE LET keys == IF Len(posargs) >= 1 THEN posargs[1] ELSE <<>>
             args == IF Len(posargs) >= 2 THEN posargs[2] ELSE <<>>
             keys_num == Len(keys)
             keys_args == Tuple(keys) \o Tuple(args)
             KEYS == SubSeq(keys_args, 1, keys_num)
             ARGV == SubSeq(keys_args, keys_num + 1, Len(keys_args))
             r == RunScript(script, s, KEYS, ARGV)
         IN  [exc |-> r.exc, ret |-> r.ret, store |-> r.store,
              cache |-> cached \cup {script}]

(***************************************************************************)
(* State                                                                   *)
(***************************************************************************)
VARIABLES
    fields,   \* the lock fields: 1, 2, 3 declared by three processes, 4 a clone of 1
    origin,   \* handle |-> the field and the lock name get_lock was called with
    lk,       \* handle |-> the RealLock object and the frame of its running call
    store,    \* the keys of the Redis server
    cache,    \* the scripts the server holds cached
    hist,     \* lock name |-> history of its lock key (observer, not program state)
    calls,    \* operations called so far
    sc,       \* caller |-> the frame of its RedisScript.__call__ (script.py)
    cls,      \* the database type: its __records__ and what with_records made of it
    db,       \* the RedisDb object (database.py)
    rec,      \* the record field, and caller |-> the frame of its RedisRecord.store
    defs,     \* the script fields constructed so far, in order
    zs        \* the frame of RedisSortedSet.incr and the ZINCRBY commands sent

vars == <<fields, origin, lk, store, cache, hist, calls, sc, cls, db, rec, defs, zs>>
lockVars == <<fields, origin, lk, hist>>
dbVars == <<cls, db, rec>>
NoDb == [state |-> "none"]
NoCls == [state |-> "none"]

Handles == DOMAIN lk

(***************************************************************************)
(* _RedisLockField                                                         *)
(***************************************************************************)
\* _RedisLockField.__init__: uuid is the value str(uuid4()) would return
RedisLockField(prefix, expire, id, uuid) ==
    [prefix |-> prefix, expire |-> expire, id |-> IF id = None THEN uuid ELSE id]

\* _RedisLockField.clone
clone(f) == RedisLockField(f.prefix, f.expire, f.id, Uuid4(4))

(***************************************************************************)
(* RedisLock.RealLock                                                      *)
(***************************************************************************)
\* self._name
LockName(prefix, name) == IF prefix # <<>> THEN prefix \o <<":">> \o name ELSE name

\* self._signal
SignalName(prefix, name) ==
    IF prefix # <<>> THEN prefix \o <<"-">> \o SignalWord \o <<":">> \o name
    ELSE SignalWord \o <<":">> \o name

\* RealLock.__init__, with the frame of a call that has not started
RealLock(id, prefix, name, expire) ==
    [_id |-> id, _name |-> LockName(prefix, name), _signal |-> SignalName(prefix, name),
     _expire |-> expire, _acquired |-> FALSE, _timed_out |-> FALSE,
     pc |-> "idle", op |-> "none", result |-> "none",
     blocking |-> TRUE, timeout |-> <<>>, blpop_timeout |-> 0, rem |-> 0,
     relKey |-> "none", invalid |-> FALSE, sent |-> NoRequest]

\* RedisLock.get_lock
get_lock(lock_info, name) ==
    RealLock(lock_info.id, lock_info.prefix, name, lock_info.expire)

(***************************************************************************)
(* Initial states.  A world is a deployment: the prefix of the lock field, *)
(* the expire values it may be declared with, and the handles taken from   *)
(* it, each by get_lock(name) on the field as process 1, 2 or 3 declared   *)
(* it (each process draws its own uuid).                                   *)
(***************************************************************************)
Origin(field, name) == [field |-> field, name |-> name]
NameA == <<"a">>
NameB == <<"b">>
NameS == <<"s">>
NameSignalS == SignalWord \o <<":", "s">>

Worlds ==
    {\* two processes, two locks, no lease: each process may take both locks
     [prefix |-> <<"p">>, expires |-> {0},
      origins |-> <<Origin(1, NameA), Origin(2, NameA), Origin(1, NameB), Origin(2, NameB)>>],
     \* three processes contend for one lock, no lease
     [prefix |-> <<"p">>, expires |-> {0},
      origins |-> <<Origin(1, NameA), Origin(2, NameA), Origin(3, NameA)>>],
     \* two processes contend for one lock, with or without a lease
     [prefix |-> <<"p">>, expires |-> 0..MaxExpire,
      origins |-> <<Origin(1, NameA), Origin(2, NameA)>>],
     \* no prefix: lock "s" and a lock named like the signal key of lock "s"
     [prefix |-> <<>>, expires |-> {0},
      origins |-> <<Origin(1, NameS), Origin(2, NameS), Origin(2, NameSignalS)>>]}

NewHist == [winners |-> {}, age |-> 0, status |-> "never"]

InitLock ==
    \E world \in Worlds :
      \E expire \in world.expires :
        LET f1 == RedisLockField(world.prefix, expire, None, Uuid4(1))
            f2 == RedisLockField(world.prefix, expire, None, Uuid4(2))
            f3 == RedisLockField(world.prefix, expire, None, Uuid4(3))
            fs == <<f1, f2, f3, clone(f1)>>
            og == world.origins
        IN  /\ fields = fs
            /\ origin = og
            /\ lk = [h \in DOMAIN og |-> get_lock(fs[og[h].field], og[h].name)]
            /\ store = <<>>
            /\ cache = {}
            /\ hist = [n \in {og[h].name : h \in DOMAIN og} |-> NewHist]
            /\ calls = 0
            /\ sc = <<>>
            /\ cls = NoCls /\ db = NoDb /\ rec = <<>> /\ defs = <<>> /\ zs = <<>>

(***************************************************************************)
(* The observer of a lock key: winners are the handles whose acquire       *)
(* returned True since the key was last free, age the seconds since the    *)
(* last successful SET (counted up to the lease), status what became of    *)
(* that acquisition: "held", "expired" by the lease, or "deleted" by a DEL.*)
(***************************************************************************)
Min(a, b) == IF a < b THEN a ELSE b
Held(s, k) == Exists(s, k) /\ s[k].t = "string"

\* setter: the handle whose SET just succeeded (0: none); ticked: a second passed
Track(s2, setter, ticked) ==
    [n \in DOMAIN hist |->
        LET k == LockName(fields[1].prefix, n)
            aged == IF ticked THEN Min(hist[n].age + 1, fields[1].expire) ELSE hist[n].age
        IN  IF setter # 0 /\ lk[setter]._name = k
            THEN [winners |-> hist[n].winners \cup {setter}, age |-> 0, status |-> "held"]
            ELSE IF Held(s2, k)
            THEN [hist[n] EXCEPT !.age = aged]
            ELSE [winners |-> {}, age |-> aged,
                  status |-> IF ~Held(store, k) THEN hist[n].status
                             ELSE IF ticked THEN "expired" ELSE "deleted"]]

(***************************************************************************)
(* RealLock.acquire                                                        *)
(***************************************************************************)
TimeoutArgs == {<<>>} \cup {<<t>> : t \in (-1)..MaxTimeout}
IsNone(timeout) == timeout = <<>>
\* Python's truth value of an Optional[int]
TruthyNever(timeout) == FALSE
Truthy(timeout) == ~IsNone(timeout) /\ timeout[1] # 0

\* a call ends: its result is kept for the caller, its frame is gone
Ended(h, result) ==
    [lk EXCEPT ![h].pc = "idle", ![h].result = result, ![h].blocking = TRUE,
               ![h].timeout = <<>>, ![h].blpop_timeout = 0, ![h].rem = 0]

\* the arguments of acquire that ask for what no acquire can do: a timeout
\* with blocking=False, a negative timeout, a timeout above the lease
InvalidTimeout(h, blocking, timeout) ==
    /\ ~IsNone(timeout)
    /\ \/ ~blocking
       \/ timeout[1] < 0
       \/ lk[h]._expire # 0 /\ timeout[1] > lk[h]._expire

\* the call, is_owner's GET and the argument checks, up to the first SET;
\* invalid keeps for the observer what the arguments were
acquire(h, blocking, timeout) ==
    /\ lk[h].pc = "idle"
    /\ calls < MaxCalls
    /\ calls' = calls + 1
    /\ LET owner == Get(store, lk[h]._name)
           expire == lk[h]._expire
           called == [lk EXCEPT ![h].op = "acquire", ![h].blocking = blocking,
                                ![h].timeout = timeout, ![h].relKey = "none",
                                ![h].result = "none", ![h].sent = NoRequest,
                                ![h].invalid = InvalidTimeout(h, blocking, timeout)]
           raise(e) == [lk EXCEPT ![h].op = "acquire", ![h].relKey = "none",
                                  ![h].result = e, ![h].sent = NoRequest,
                                  ![h].invalid = InvalidTimeout(h, blocking, timeout)]
       IN  lk' = IF owner.err # "" THEN raise(owner.err)
                 ELSE IF lk[h]._id = owner.val THEN raise("RedisLockError")
                 ELSE IF ~blocking /\ ~IsNone(timeout)
                      THEN raise("RedisLockInvalidTimeoutError")
                 ELSE IF ~IsNone(timeout) /\ timeout[1] <= 0
                      THEN raise("RedisLockInvalidTimeoutError")
                 ELSE IF Truthy(timeout) /\ expire # 0 /\ timeout[1] > expire
                      THEN raise("RedisLockInvalidTimeoutError")
                 ELSE [called EXCEPT ![h].pc = "set",
                          ![h].blpop_timeout = IF Truthy(timeout) THEN timeout[1] ELSE expire,
                          ![h]._timed_out = FALSE]
    /\ UNCHANGED <<fields, origin, store, cache, hist>>

\* one pass of the loop: the SET, and what follows its answer
acquire_set(h) ==
    /\ lk[h].pc = "set"
    /\ LET r == SetIfNotExist(store, lk[h]._name, lk[h]._id, lk[h]._expire)
           busy == ~r.ok
       IN  /\ store' = r.store
           /\ hist' = Track(r.store, IF busy THEN 0 ELSE h, FALSE)
           /\ lk' = IF ~busy THEN [Ended(h, "True") EXCEPT ![h]._acquired = TRUE]
                    ELSE IF lk[h]._timed_out THEN Ended(h, "RedisLockTimeoutError")
                    ELSE IF lk[h].blocking THEN [lk EXCEPT ![h].pc = "blpop"]
                    ELSE Ended(h, "RedisLockError")
    /\ UNCHANGED <<fields, origin, cache, calls>>

\* self._timed_out = not await blpop(...) and timeout != 0
TimedOut(reply, timeout) == (reply = Nil) /\ (IsNone(timeout) \/ timeout[1] # 0)

\* the store runs BLPOP signal blpop_timeout: it pops, fails on a key that is
\* no list, or blocks the caller
acquire_blpop(h) ==
    /\ lk[h].pc = "blpop"
    /\ LET k == lk[h]._signal
       IN  IF ~Exists(store, k)
           THEN /\ lk' = [lk EXCEPT ![h].pc = "blocked", ![h].rem = lk[h].blpop_timeout]
                /\ UNCHANGED <<store, hist>>
           ELSE IF store[k].t = "list"
           THEN /\ store' = LPop(store, k)
                /\ hist' = Track(LPop(store, k), 0, FALSE)
                /\ lk' = [lk EXCEPT ![h].pc = "set",
                                    ![h]._timed_out = TimedOut(<<"1">>, lk[h].timeout)]
           ELSE /\ lk' = Ended(h, "ResponseError")
                /\ UNCHANGED <<store, hist>>
    /\ UNCHANGED <<fields, origin, cache, calls>>

\* the blocked BLPOP runs out of time and answers nil
acquire_blpop_timeout(h) ==
    /\ lk[h].pc = "blocked"
    /\ lk[h].blpop_timeout > 0
    /\ lk[h].rem = 0
    /\ lk' = [lk EXCEPT ![h].pc = "set", ![h]._timed_out = TimedOut(Nil, lk[h].timeout)]
    /\ UNCHANGED <<fields, origin, store, cache, hist, calls>>

(***************************************************************************)
(* A push serves a caller blocked in BLPOP on that key at once, before any *)
(* later command: after a script, w is the blocked handle served (0: none).*)
(***************************************************************************)
Blocked(s) ==
    {h \in Handles : /\ lk[h].pc = "blocked"
                     /\ Exists(s, lk[h]._signal)
                     /\ s[lk[h]._signal].t = "list"}
Served(s) == IF Blocked(s) = {} THEN {0} ELSE Blocked(s)
ServeStore(s, w) == IF w = 0 THEN s ELSE LPop(s, lk[w]._signal)
ServeLock(l, w) ==
    IF w = 0 THEN l
    ELSE [l EXCEPT ![w].pc = "set", ![w]._timed_out = TimedOut(<<"1">>, lk[w].timeout)]

(***************************************************************************)
(* RealLock.release, RealLock.reset, RealLock._delete_signal               *)
(***************************************************************************)
\* what release does with the answer of the unlock script
UnlockOutcomeSwallowed(r) == "delete_signal"
UnlockOutcome(r) ==
    IF r.exc # "" THEN r.exc
    ELSE IF r.ret = 1 THEN "RedisLockError"
    ELSE IF r.ret # 0 THEN "RedisLockError"
    ELSE "delete_signal"

\* the lock key as a call finds it: holding its "own" id or an "other" value,
\* or absent: "never" set, "expired" by its lease, or "deleted"
KeyState(h) ==
    IF ~Exists(store, lk[h]._name) THEN hist[origin[h].name].status
    ELSE IF store[lk[h]._name].t = "string" /\ store[lk[h]._name].v = lk[h]._id THEN "own"
    ELSE "other"

release(h) ==
    /\ lk[h].pc = "idle"
    /\ calls < MaxCalls
    /\ calls' = calls + 1
    /\ LET called == [lk EXCEPT ![h]._acquired = FALSE, ![h].op = "release",
                                ![h].result = "none", ![h].relKey = KeyState(h),
                                ![h].invalid = FALSE,
                                ![h].sent = IF lk[h]._timed_out THEN NoRequest
                                            ELSE ScriptRequest(<<lk[h]._name, lk[h]._signal,
                                                                 lk[h]._id>>)]
       IN  IF lk[h]._timed_out
           THEN /\ lk' = [called EXCEPT ![h].pc = "delete_signal"]
                /\ UNCHANGED <<store, cache, hist>>
           ELSE LET r == RedisScriptCall("UnlockScript",
                             <<lk[h]._name, lk[h]._signal, lk[h]._id>>, store, cache)
                    out == UnlockOutcome(r)
                IN  \E w \in Served(r.store) :
                      /\ store' = ServeStore(r.store, w)
                      /\ cache' = r.cache
                      /\ hist' = Track(ServeStore(r.store, w), 0, FALSE)
                      /\ lk' = ServeLock(IF out = "delete_signal"
                                         THEN [called EXCEPT ![h].pc = "delete_signal"]
                                         ELSE [called EXCEPT ![h].result = out], w)
    /\ UNCHANGED <<fields, origin>>

reset(h) ==
    /\ lk[h].pc = "idle"
    /\ calls < MaxCalls
    /\ calls' = calls + 1
    /\ LET called == [lk EXCEPT ![h].op = "reset", ![h].result = "none",
                                ![h].relKey = "none", ![h].invalid = FALSE,
                                ![h].sent = ScriptRequest(<<lk[h]._name, lk[h]._signal>>)]
           r == RedisScriptCall("ResetScript", <<lk[h]._name, lk[h]._signal>>, store, cache)
       IN  \E w \in Served(r.store) :
             /\ store' = ServeStore(r.store, w)
             /\ cache' = r.cache
             /\ hist' = Track(ServeStore(r.store, w), 0, FALSE)
             /\ lk' = ServeLock(IF r.exc # "" THEN [called EXCEPT ![h].result = r.exc]
                                ELSE [called EXCEPT ![h].pc = "delete_signal"], w)
    /\ UNCHANGED <<fields, origin>>

\* _delete_signal, and the end of the release or reset that awaited it
DeleteNameMutant(h) ==
    /\ lk[h].pc = "delete_signal"
    /\ store' = Del(store, lk[h]._name)
    /\ hist' = Track(Del(store, lk[h]._name), 0, FALSE)
    /\ lk' = IF lk[h].op = "reset"
             THEN [Ended(h, "ok") EXCEPT ![h]._timed_out = FALSE, ![h]._acquired = FALSE]
             ELSE Ended(h, "ok")
    /\ UNCHANGED <<fields, origin, cache, calls>>

_delete_signal(h) ==
    /\ lk[h].pc = "delete_signal"
    /\ store' = Del(store, lk[h]._signal)
    /\ hist' = Track(Del(store, lk[h]._signal), 0, FALSE)
    /\ lk' = IF lk[h].op = "reset"
             THEN [Ended(h, "ok") EXCEPT ![h]._timed_out = FALSE, ![h]._acquired = FALSE]
             ELSE Ended(h, "ok")
    /\ UNCHANGED <<fields, origin, cache, calls>>

(***************************************************************************)
(* One second passes: keys age and expire, blocked BLPOPs count down.  A   *)
(* BLPOP whose time is up answers before the next second.                  *)
(***************************************************************************)
Timed(h) == lk[h].pc = "blocked" /\ lk[h].blpop_timeout > 0

Tick ==
    /\ \A h \in Handles : Timed(h) => lk[h].rem > 0
    /\ \/ \E k \in DOMAIN store : store[k].ttl > 0
       \/ \E h \in Handles : Timed(h)
    /\ store' = Expire(store)
    /\ hist' = Track(Expire(store), 0, TRUE)
    /\ lk' = [h \in Handles |-> IF Timed(h) THEN [lk[h] EXCEPT !.rem = @ - 1] ELSE lk[h]]
    /\ UNCHANGED <<fields, origin, cache, calls>>

NextLock ==
    /\ UNCHANGED <<sc, cls, db, rec, defs, zs>>
    /\ \/ \E h \in Handles, blocking \in BOOLEAN, timeout \in TimeoutArgs :
             acquire(h, blocking, timeout)
       \/ \E h \in Handles : acquire_set(h)
       \/ \E h \in Handles : acquire_blpop(h)
       \/ \E h \in Handles : acquire_blpop_timeout(h)
       \/ \E h \in Handles : release(h)
       \/ \E h \in Handles : reset(h)
       \/ \E h \in Handles : _delete_signal(h)
       \/ Tick

SpecLock == InitLock /\ [][NextLock]_vars

(***************************************************************************)
(* Properties                                                              *)
(***************************************************************************)
LockKeyOf(n) == LockName(fields[1].prefix, n)
SignalKeyOf(n) == SignalName(fields[1].prefix, n)
SameLock(g, h) == g # h /\ origin[g].name = origin[h].name
InLoop(h) == lk[h].pc \in {"set", "blpop", "blocked"}
ReleaseDone(h) == lk[h].op = "release" /\ lk[h].pc = "idle"

\* C1: of the handles (with distinct holder ids) acquiring one lock name, at most
\* one has had acquire return True since the lock key was last free, and the key
\* holds that handle's id; nobody else succeeds before the key is freed.
C1_MutualExclusion ==
    \A n \in DOMAIN hist :
        /\ Cardinality(hist[n].winners) <= 1
        /\ \A h \in hist[n].winners :
              /\ Held(store, LockKeyOf(n))
              /\ store[LockKeyOf(n)].v = lk[h]._id
              /\ \A g \in Handles : SameLock(g, h) => lk[g]._id # lk[h]._id

\* C1 witness: one handle holds the lock while a second contender is blocked in
\* its wait and a third, non-blocking, was refused.
C1_Witness ==
    \E h, g1, g2 \in Handles :
        /\ SameLock(g1, h) /\ SameLock(g2, h) /\ g1 # g2
        /\ hist[origin[h].name].winners = {h}
        /\ lk[g1].pc = "blocked"
        /\ lk[g2].op = "acquire" /\ lk[g2].result = "RedisLockError"

\* C2: when acquire returned True on a handle and the lock key still holds its
\* id, a release() on that handle that returns has removed the lock key, also
\* when the acquire had gone through a wait that timed out.
C2_ReleaseFreesOwnLock ==
    \A h \in Handles :
        (ReleaseDone(h) /\ lk[h].result = "ok" /\ lk[h].relKey = "own")
            => KeyState(h) # "own"

\* this step ends a release() of handle a (by return or by raise)
ReleaseEnds(a) ==
    /\ lk'[a].op = "release"
    /\ lk'[a].pc = "idle"
    /\ \/ lk[a].pc = "delete_signal"
       \/ /\ lk[a].pc = "idle"
          /\ calls' = calls + 1
          /\ \A g \in Handles \ {a} : lk'[g] = lk[g]

\* this step is part of a release() of handle h
ReleaseStep(h) ==
    \/ ReleaseEnds(h)
    \/ lk[h].pc = "idle" /\ lk'[h].pc = "delete_signal" /\ lk'[h].op = "release"

\* b waits in a BLPOP that has no time-out, on a signal list nobody filled
Stranded(b) ==
    lk[b].pc = "blocked" /\ lk[b].blpop_timeout = 0 /\ ~Exists(store, lk[b]._signal)

\* C3: A holds the lock, B is inside a blocking acquire on it and nobody else
\* contends: when A's release ends, the key is no longer A's (B need not wait
\* for the lease) and B is not left in a store-side wait that never ends.
C3_ReleaseLetsWaiterIn ==
    [][\A a, b \in Handles :
          ( /\ SameLock(a, b)
            /\ InLoop(b) /\ lk[b].blocking
            /\ \A g \in Handles \ {a, b} : SameLock(g, a) => lk[g].op = "none"
            /\ ReleaseEnds(a)
            /\ lk'[a].relKey = "own" )
          => (KeyState(a) # "own" /\ ~Stranded(b))']_vars

\* C4: a release() on a handle whose id differs from the id stored in the lock
\* key changes nothing on the store.
C4_ForeignReleaseNoOp ==
    [][\A h \in Handles :
          (ReleaseStep(h) /\ KeyState(h) = "other") => store' = store]_vars

Errors == {"TypeError", "ResponseError", "RedisLockError", "RedisLockTimeoutError",
           "RedisLockInvalidTimeoutError"}

C6_LeaseBoundsOwnership ==
    \A n \in DOMAIN hist :
        LET L == fields[1].expire
            k == LockKeyOf(n)
        IN  L > 0 =>
              /\ hist[n].status = "held" =>
                    /\ hist[n].age < L
                    /\ Cardinality(hist[n].winners) = 1
                    /\ Held(store, k)
                    /\ \A w \in hist[n].winners : store[k].v = lk[w]._id
                    /\ store[k].ttl = L - hist[n].age
              /\ (hist[n].status # "never" /\ hist[n].age < L) =>
                    hist[n].status \in {"held", "deleted"}
              /\ hist[n].status = "expired" => hist[n].age >= L
              /\ (hist[n].status # "never" /\ hist[n].age >= L) => ~Held(store, k)

\* C6 witness: h acquired the lock and never released it; its lease ran out and
\* a handle of a different holder acquired the same lock.
C6_Witness ==
    \E h, g \in Handles :
        /\ SameLock(g, h) /\ lk[g]._id # lk[h]._id
        /\ fields[1].expire > 0
        /\ lk[h].op = "acquire" /\ lk[h].result = "True" /\ lk[h]._acquired
        /\ lk[g].op = "acquire" /\ lk[g].result = "True"
        /\ hist[origin[h].name].winners = {g}
        /\ store[lk[g]._name].v = lk[g]._id

\* C7: a blocking acquire called without a timeout never ends with a timeout
\* error.
C7_NoTimeoutWithoutTimeout ==
    [][\A h \in Handles :
          (InLoop(h) /\ lk[h].blocking /\ IsNone(lk[h].timeout))
              => lk'[h].result # "RedisLockTimeoutError"]_vars

\* handle a waits without time-out for a key that holds b's id and never expires
WaitsFor(a, b) ==
    /\ Stranded(a)
    /\ Held(store, lk[a]._name)
    /\ store[lk[a]._name].v = lk[b]._id
    /\ store[lk[a]._name].ttl = 0

\* C8: two holders never both wait without end, each for a lock the other
\* holds: one of the two acquires is ended by a deadlock error.
C8_NoCycleOfWaiters ==
    \A a, b \in Handles :
        lk[a]._id # lk[b]._id => ~(WaitsFor(a, b) /\ WaitsFor(b, a))

\* C9: the fields were configured without an id, so any two handles obtained
\* from them carry different holder ids, and a clone has an id of its own.
C9_HandlesHaveOwnIds ==
    /\ \A g, h \in Handles : g # h => lk[g]._id # lk[h]._id
    /\ clone(fields[1]).id # fields[1].id

\* this step is taken by handle h: a call it makes or a step of its call
Actor(h) ==
    \/ lk[h].pc = "idle" /\ calls' = calls + 1 /\ lk'[h] # lk[h]
    \/ lk[h].pc \in {"set", "blpop", "delete_signal"} /\ lk'[h].pc # lk[h].pc
    \/ lk[h].pc = "blocked" /\ lk'[h].pc # "blocked" /\ calls' = calls

\* what the store holds under key k
View(s, k) == IF Exists(s, k) THEN {s[k]} ELSE {}

\* C10: a step of acquire, release or reset on one lock name leaves the lock
\* key and the signal key of every other lock name as they were.
C10_OtherNamesUntouched ==
    [][\A h \in Handles : \A n \in DOMAIN hist :
          (Actor(h) /\ n # origin[h].name)
              => /\ View(store', LockKeyOf(n)) = View(store, LockKeyOf(n))
                 /\ View(store', SignalKeyOf(n)) = View(store, SignalKeyOf(n))]_vars

(***************************************************************************)
(* RedisScript.__call__ step by step: the call, its EVALSHA and, after a   *)
(* NoScriptError, its EVAL (script.py 93-114), for callers that pass keys  *)
(* and args as lists.  The store may lose its script cache at any moment   *)
(* (SCRIPT FLUSH, eviction, restart), and a command may fail on the        *)
(* transport before the store ran it or after.                             *)
(***************************************************************************)
Callers == 1..2
Scripts == {"UnlockScript", "ResetScript"}
KeyLists == {<<>>, <<NameA>>, <<NameA, NameB>>}
ArgLists == {<<>>, <<Uuid4(1)>>}
\* an Optional argument: <<>> is None, <<x>> is the value x
Optional(S) == {<<>>} \cup {<<x>> : x \in S}
\* `x or []`
OrEmpty(x) == IF Len(x) = 0 THEN <<>> ELSE x[1]
\* RedisScriptData.code_sha1: the digest names the code it was taken from
Sha1(code) == <<"sha1", code>>

\* tuple(keys) + tuple(args) of two lists
KeysArgsSwapped(keys, args) == args \o keys
KeysArgs(keys, args) == keys \o args

Faults == {"none", "lost_request", "lost_reply"}

\* the store runs a script body on numkeys keys and the remaining values
RunBody(script, numkeys, keys_args, s) ==
    RunScript(script, s, SubSeq(keys_args, 1, numkeys),
              SubSeq(keys_args, numkeys + 1, Len(keys_args)))

\* EVALSHA sha numkeys keys_args
EvalSha(sha, numkeys, keys_args, s, cached) ==
    IF \E c \in cached : Sha1(c) = sha
    THEN LET c == CHOOSE c \in cached : Sha1(c) = sha
             r == RunBody(c, numkeys, keys_args, s)
         IN  [exc |-> r.exc, ret |-> r.ret, store |-> r.store, cache |-> cached,
              ran |-> r.exc = ""]
    ELSE [exc |-> "NoScriptError", ret |-> 0, store |-> s, cache |-> cached,
          ran |-> FALSE]

\* EVAL code numkeys keys_args: the store keeps the code cached
Eval(code, numkeys, keys_args, s, cached) ==
    LET r == RunBody(code, numkeys, keys_args, s)
    IN  [exc |-> r.exc, ret |-> r.ret, store |-> r.store, cache |-> cached \cup {code},
         ran |-> r.exc = ""]

\* what the transport makes of a command: the reply the client sees
Transport(fault, reply, s, cached) ==
    IF fault = "lost_request"
    THEN [exc |-> "ConnectionError", ret |-> 0, store |-> s, cache |-> cached, ran |-> FALSE]
    ELSE IF fault = "lost_reply" THEN [reply EXCEPT !.exc = "ConnectionError", !.ret = 0]
    ELSE reply

NewFrame ==
    [pc |-> "idle", script |-> "none", keys |-> <<>>, args |-> <<>>, keys_num |-> 0,
     keys_args |-> <<>>, sent |-> <<>>, applied |-> 0, result |-> "none", ret |-> 0]

InitScript ==
    /\ sc = [c \in Callers |-> NewFrame]
    /\ store \in {<<>>, Put(<<>>, NameA, StrEntry(Uuid4(1), 0))}
    /\ cache \in SUBSET Scripts
    /\ calls = 0
    /\ fields = <<>> /\ origin = <<>> /\ lk = <<>> /\ hist = <<>>
    /\ cls = NoCls /\ db = NoDb /\ rec = <<>> /\ defs = <<>> /\ zs = <<>>

\* lines 106-109: the call binds keys and args and builds the argument tuple
script_call(c, script, keys, args) ==
    /\ sc[c].pc = "idle"
    /\ calls < MaxScriptCalls
    /\ calls' = calls + 1
    /\ sc' = [sc EXCEPT ![c] =
                [pc |-> "evalsha", script |-> script, keys |-> OrEmpty(keys),
                 args |-> OrEmpty(args), keys_num |-> Len(OrEmpty(keys)),
                 keys_args |-> KeysArgs(OrEmpty(keys), OrEmpty(args)),
                 sent |-> <<>>, applied |-> 0, result |-> "none", ret |-> 0]]
    /\ UNCHANGED <<store, cache, lockVars, zs, defs, dbVars>>

Command(cmd, f, reply) ==
    [cmd |-> cmd, script |-> f.script, numkeys |-> f.keys_num,
     keys_args |-> f.keys_args, exc |-> reply.exc, ret |-> reply.ret]

\* the except clause of line 112 after the EVALSHA of line 111
OnEvalShaReplyAnyError(exc) == IF exc = "" THEN "return" ELSE "eval"
OnEvalShaReplyEvalToo(exc) == IF exc \in {"", "NoScriptError"} THEN "eval" ELSE "raise"
OnEvalShaReply(exc) ==
    IF exc = "" THEN "return" ELSE IF exc = "NoScriptError" THEN "eval" ELSE "raise"

\* line 111
script_evalsha(c) ==
    /\ sc[c].pc = "evalsha"
    /\ \E fault \in Faults :
         LET f == sc[c]
             r == Transport(fault, EvalSha(Sha1(f.script), f.keys_num, f.keys_args, store, cache),
                            store, cache)
             g == [f EXCEPT !.sent = Append(@, Command("EVALSHA", f, r)),
                            !.applied = IF r.ran THEN @ + 1 ELSE @]
             next == OnEvalShaReply(r.exc)
         IN  /\ store' = r.store
             /\ cache' = r.cache
             /\ sc' = [sc EXCEPT ![c] =
                         IF next = "eval" THEN [g EXCEPT !.pc = "eval"]
                         ELSE IF next = "return"
                         THEN [g EXCEPT !.pc = "idle", !.result = "returned", !.ret = r.ret]
                         ELSE [g EXCEPT !.pc = "idle", !.result = r.exc]]
    /\ UNCHANGED <<calls, lockVars, zs, defs, dbVars>>

\* line 113, and the return of line 114
script_eval(c) ==
    /\ sc[c].pc = "eval"
    /\ \E fault \in Faults :
         LET f == sc[c]
             r == Transport(fault, Eval(f.script, f.keys_num, f.keys_args, store, cache),
                            store, cache)
             g == [f EXCEPT !.sent = Append(@, Command("EVAL", f, r)),
                            !.applied = IF r.ran THEN @ + 1 ELSE @]
         IN  /\ store' = r.store
             /\ cache' = r.cache
             /\ sc' = [sc EXCEPT ![c] =
                         IF r.exc = ""
                         THEN [g EXCEPT !.pc = "idle", !.result = "returned", !.ret = r.ret]
                         ELSE [g EXCEPT !.pc = "idle", !.result = r.exc]]
    /\ UNCHANGED <<calls, lockVars, zs, defs, dbVars>>

\* the store loses its cached scripts
ScriptCacheLost ==
    /\ cache # {}
    /\ cache' = {}
    /\ UNCHANGED <<store, calls, sc, lockVars, zs, defs, dbVars>>

NextScript ==
    \/ \E c \in Callers, script \in Scripts, keys \in Optional(KeyLists),
          args \in Optional(ArgLists) : script_call(c, script, keys, args)
    \/ \E c \in Callers : script_evalsha(c)
    \/ \E c \in Callers : script_eval(c)
    \/ ScriptCacheLost

SpecScript == InitScript /\ [][NextScript]_vars

Last(q) == q[Len(q)]
Returned(c) == sc[c].pc = "idle" /\ sc[c].result = "returned"
ScriptEnded(c) == sc[c].pc = "idle" /\ sc[c].result # "none"

\* C11: a call sends EVALSHA first and EVAL only after that EVALSHA was
\* answered with NoScriptError, at most once; both carry the call's script, the
\* number of its keys, and its keys followed by its args; a call that returns
\* returns the reply of the command that ran the script.
C11_DigestFirstThenSource ==
    \A c \in Callers :
        LET f == sc[c]
        IN  /\ Len(f.sent) <= 2
            /\ ScriptEnded(c) => Len(f.sent) >= 1
            /\ f.pc = "eval" => Len(f.sent) = 1
            /\ Len(f.sent) >= 1 => f.sent[1].cmd = "EVALSHA"
            /\ Len(f.sent) = 2 =>
                  f.sent[2].cmd = "EVAL" /\ f.sent[1].exc = "NoScriptError"
            /\ \A i \in 1..Len(f.sent) :
                  /\ f.sent[i].script = f.script
                  /\ f.sent[i].numkeys = Len(f.keys)
                  /\ f.sent[i].keys_args = f.keys \o f.args
            /\ Returned(c) => Last(f.sent).exc = "" /\ f.ret = Last(f.sent).ret

\* C11 witness: a call with keys and args got NoScriptError, sent EVAL and
\* returned.
C11_Witness ==
    \E c \in Callers :
        /\ Returned(c)
        /\ Len(sc[c].sent) = 2
        /\ Len(sc[c].keys) = 2 /\ Len(sc[c].args) = 1

\* C12: a call that returns has run the script body exactly once, whatever
\* happened to the script cache meanwhile.
C12_AppliedExactlyOnce ==
    \A c \in Callers : Returned(c) => sc[c].applied = 1

\* C12 witness: one call returned after running the script by digest, another
\* call of the same script found it gone from the cache and returned after
\* running it by source.
C12_Witness ==
    \E c, d \in Callers :
        /\ c # d /\ sc[c].script = sc[d].script
        /\ Returned(d) /\ Len(sc[d].sent) = 1 /\ sc[d].applied = 1
        /\ Returned(c) /\ Len(sc[c].sent) = 2 /\ sc[c].applied = 1

\* C13: an EVALSHA error other than NoScriptError ends the call with that
\* error and without an EVAL; an error of the EVAL ends the call with that
\* error.
C13_ErrorsPassThrough ==
    \A c \in Callers :
        LET f == sc[c]
        IN  /\ (Len(f.sent) >= 1 /\ f.sent[1].exc \notin {"", "NoScriptError"}) =>
                  /\ Len(f.sent) = 1
                  /\ f.pc = "idle"
                  /\ f.result = f.sent[1].exc
            /\ (Len(f.sent) = 2 /\ f.sent[2].exc # "") =>
                  /\ f.pc = "idle"
                  /\ f.result = f.sent[2].exc

\* C13 witness: one call ended with the transport error of its EVALSHA, another
\* with the script error of its EVAL.
C13_Witness ==
    \E c, d \in Callers :
        /\ ScriptEnded(c) /\ Len(sc[c].sent) = 1 /\ sc[c].result = "ConnectionError"
        /\ ScriptEnded(d) /\ Len(sc[d].sent) = 2 /\ sc[d].result = "ResponseError"

(***************************************************************************)
(* RedisDb (database.py).  A descriptor is an object: oid is its identity. *)
(* A collection class called as record_class(connection, record_info)      *)
(* keeps both, as RedisRecordBase.__init__ does (_base.py 89-91).          *)
(***************************************************************************)
\* a list config holds 0..MaxShards connections
MaxShards == 3
\* start() calls completed on one database object
MaxStarts == 2
\* with_records calls, each on the type the previous one returned
MaxNarrowings == 2

Field(oid, kind, prefix, expire) ==
    [oid |-> oid, kind |-> kind, prefix |-> prefix, expire |-> expire]
NoField == Field(0, "none", <<>>, 0)
\* the clone() of the field classes: a new object with the same configuration
CloneField(f, gen) == [f EXCEPT !.oid = 10 * gen + (f.oid % 10)]

\* the isinstance chain of RedisDbMeta.__new__ (a RedisSetField is a
\* RedisRecordField and is met by the RedisRecordField test first)
RecordClass(kind) ==
    CASE kind = "lock" -> "RedisLock"
      [] kind \in {"record", "set"} -> "RedisRecord"
      [] kind = "script" -> "RedisScript"

\* a value of a class namespace: a descriptor, a (descriptor, class) tuple or
\* anything else
NsField(f) == [ty |-> "field", field |-> f, klass |-> "none"]
NsTuple(f, klass) == [ty |-> "tuple", field |-> f, klass |-> klass]
NsOther == [ty |-> "other", field |-> NoField, klass |-> "none"]

\* RedisDbMeta.__new__: the descriptors of the namespace become __records__
MetaNew(namespace) ==
    [n \in {m \in DOMAIN namespace : namespace[m].ty = "field"} |->
        [field |-> namespace[n].field, klass |-> RecordClass(namespace[n].field.kind)]]

CollectionNames == {"locks", "recs", "sets"}
\* the class bodies of the database types declared
Declarations ==
    { <<>>,
      ("locks" :> NsField(Field(1, "lock", <<"p">>, 1))),
      ("locks" :> NsField(Field(1, "lock", <<"p">>, 1)) @@
       "recs" :> NsField(Field(2, "record", <<"r">>, 0)) @@
       "sets" :> NsField(Field(3, "set", <<"s">>, 0))) }

Configs ==
    {[kind |-> "str", n |-> 1], [kind |-> "dict", n |-> 1]} \cup
    {[kind |-> "list", n |-> k] : k \in 0..MaxShards}

\* lines 71-86: __sharded is set in the loop over a list config
ShardedAlways(config) == TRUE
Sharded(config) == config.kind = "list" /\ config.n > 0

\* the keys handed to __getitem__: ints, bytes (b1, b2) and an unhashable one
Keys ==
    {[ty |-> "int", v |-> i] : i \in (-1)..(MaxShards + 1)} \cup
    {[ty |-> "bytes", v |-> b] : b \in 1..2} \cup {[ty |-> "list", v |-> 0]}
NoKey == [ty |-> "none", v |-> 0]

\* hash(key) of a bytes key: fixed within a process by its hash seed
HashSeeds == 0..1
PyHash(seed, b) == (7 * b + 5 * seed) * (IF (b + seed) % 2 = 0 THEN 1 ELSE -1)

\* the floored modulo of Python, for a positive modulus
PyMod(a, n) == IF a >= 0 THEN a % n ELSE (n - ((-a) % n)) % n

Reply(exc, idx) == [exc |-> exc, idx |-> idx]

\* __getitem__: idx is the 0-based index of the shard object returned
GetItem(d, key) ==
    IF ~d.sharded THEN Reply("AttributeError", -1)
    ELSE IF key.ty = "bytes" /\ Len(d.items) = 0 THEN Reply("ZeroDivisionError", -1)
    ELSE LET shard_id == IF key.ty = "int" THEN key.v
                         ELSE IF key.ty = "bytes"
                         THEN PyMod(PyHash(d.hashseed, key.v), Len(d.items))
                         ELSE -1
         IN  IF 0 <= shard_id /\ shard_id < Len(d.items)
             THEN Reply("", shard_id)
             ELSE Reply("AssertionError", -1)

\* record_class(connection, record_info)
Bound(klass, connection, record_info) ==
    [klass |-> klass, connection |-> connection, record_info |-> record_info]

\* lines 103-104 and 107-108: one instance per entry of __records__
BindAll(records, connection) ==
    [n \in DOMAIN records |-> Bound(records[n].klass, connection, records[n].field)]

InitDb ==
    /\ \E ns \in Declarations :
         cls = [state |-> "declared", records |-> MetaNew(ns), origin |-> MetaNew(ns),
                requested |-> {}, narrowed |-> FALSE, gen |-> 0, exc |-> ""]
    /\ \E seed \in HashSeeds : db = [state |-> "none", hashseed |-> seed]
    /\ fields = <<>> /\ origin = <<>> /\ lk = <<>> /\ hist = <<>>
    /\ store = <<>> /\ cache = {} /\ calls = 0 /\ sc = <<>> /\ rec = <<>> /\ defs = <<>> /\ zs = <<>>

\* with_records(*records) on the current type
with_records(names) ==
    /\ db.state = "none"
    /\ cls.gen < MaxNarrowings
    /\ IF ~(names \subseteq DOMAIN cls.records)
       THEN cls' = [cls EXCEPT !.exc = "KeyError"]
       ELSE LET gen == cls.gen + 1
                namespace ==
                    [n \in names \cup {"log"} |->
                        IF n = "log" THEN NsOther
                        ELSE NsTuple(CloneField(cls.records[n].field, gen),
                                     cls.records[n].klass)]
            IN  cls' = [state |-> "declared", records |-> MetaNew(namespace),
                        origin |-> cls.records, requested |-> names,
                        narrowed |-> TRUE, gen |-> gen, exc |-> ""]
    /\ UNCHANGED <<db, rec, lockVars, zs, defs, store, cache, calls, sc>>

\* RedisDb.__init__(config) on the current type
db_init(config) ==
    /\ db.state = "none"
    /\ db' = [state |-> "stopped", hashseed |-> db.hashseed, config |-> config,
              records |-> cls.records,
              shards |-> [i \in 1..config.n |-> i],
              items |-> <<>>, sharded |-> Sharded(config),
              attrs |-> <<>>, starts |-> 0,
              last |-> [key |-> NoKey, out |-> Reply("", -1), running |-> FALSE],
              routed |-> [b \in 1..2 |-> {}]]
    /\ UNCHANGED <<cls, rec, lockVars, zs, defs, store, cache, calls, sc>>

\* the shard objects one run of the loop of lines 100-105 appends
NewShards(d) == [i \in 1..Len(d.shards) |-> BindAll(d.records, d.shards[i])]

\* start(): __start__
db_start ==
    /\ db.state = "stopped"
    /\ db.starts < MaxStarts
    /\ db' = IF db.sharded
             THEN [db EXCEPT !.state = "running", !.starts = @ + 1,
                             !.items = @ \o NewShards(db)]
             ELSE [db EXCEPT !.state = "running", !.starts = @ + 1,
                             !.attrs = IF Len(db.shards) = 0 THEN @
                                       ELSE BindAll(db.records, db.shards[Len(db.shards)])]
    /\ UNCHANGED <<cls, rec, lockVars, zs, defs, store, cache, calls, sc>>

\* stop(): __stop__
db_stop ==
    /\ db.state = "running"
    /\ db' = [db EXCEPT !.state = "stopped"]
    /\ UNCHANGED <<cls, rec, lockVars, zs, defs, store, cache, calls, sc>>

\* db[key]
db_getitem(key) ==
    /\ db.state \in {"stopped", "running"}
    /\ LET out == GetItem(db, key)
           running == db.state = "running"
       IN  db' = [db EXCEPT !.last = [key |-> key, out |-> out, running |-> running],
                            !.routed = IF key.ty = "bytes" /\ running /\ out.exc = ""
                                       THEN [@ EXCEPT ![key.v] = @ \cup {out.idx}]
                                       ELSE @]
    /\ UNCHANGED <<cls, rec, lockVars, zs, defs, store, cache, calls, sc>>

NextDb ==
    \/ \E names \in SUBSET CollectionNames : with_records(names)
    \/ \E config \in Configs : db_init(config)
    \/ db_start
    \/ db_stop
    \/ \E key \in Keys : db_getitem(key)

SpecDb == InitDb /\ [][NextDb]_vars

Constructed == db.state # "none"
Started == Constructed /\ db.state = "running"
\* N: the number of configured connections
ShardCount == Len(db.shards)

\* C14: on a started sharded database with N >= 2 connections, every selection
\* with one bytes key gave the same index, and that index is in 0..N-1.
C14_ShardDeterminism ==
    (Constructed /\ db.sharded /\ ShardCount >= 2) =>
        \A b \in DOMAIN db.routed :
            /\ Cardinality(db.routed[b]) <= 1
            /\ db.routed[b] \subseteq 0..(ShardCount - 1)

\* C15: on a started sharded database with N connections, a selection with
\* the integer i returned group i when 0 <= i < N and failed with the
\* assertion otherwise.
C15_IntegerKeyIsIndex ==
    (Constructed /\ db.sharded /\ db.last.running /\ db.last.key.ty = "int") =>
        IF 0 <= db.last.key.v /\ db.last.key.v < ShardCount
        THEN db.last.out = Reply("", db.last.key.v)
        ELSE db.last.out = Reply("AssertionError", -1)

\* C16: on a database configured with a single connection (a str or a dict),
\* every selection, before or after start, failed with AttributeError('Not
\* sharded DB').
C16_UnshardedSelectorFails ==
    (Constructed /\ db.config.kind \in {"str", "dict"} /\ db.last.key # NoKey) =>
        db.last.out = Reply("AttributeError", -1)

\* C16 witness: selections on a single-connection database failed this way, the
\* last of them with a bytes key after start.
C16_Witness ==
    /\ Started /\ db.config.kind = "str"
    /\ DOMAIN db.attrs # {}
    /\ db.last.running /\ db.last.key.ty = "bytes"
    /\ db.last.out.exc = "AttributeError"

\* C17: after start() on a list of N connections there are exactly N shard
\* groups, group i holding one instance per declared name bound to connection
\* i; with a single connection the instances are attributes of the database,
\* bound to that connection.
C17_StartBuildsGroups ==
    Started =>
        IF db.config.kind = "list"
        THEN /\ Len(db.items) = db.config.n
             /\ \A i \in 1..Len(db.items) :
                   /\ DOMAIN db.items[i] = DOMAIN db.records
                   /\ \A n \in DOMAIN db.items[i] :
                         /\ db.items[i][n].connection = db.shards[i]
                         /\ db.items[i][n].klass = db.records[n].klass
        ELSE /\ db.items = <<>>
             /\ DOMAIN db.attrs = DOMAIN db.records
             /\ \A n \in DOMAIN db.attrs : db.attrs[n].connection = db.shards[1]

\* C18: after start() on a sharded database the instances of one collection
\* in two shards hold different descriptor objects with the same prefix,
\* expiry and kind.
C18_ShardsOwnTheirDescriptors ==
    (Started /\ db.sharded) =>
        \A i, j \in 1..Len(db.items) : \A n \in DOMAIN db.records :
            i # j =>
                /\ db.items[i][n].record_info.oid # db.items[j][n].record_info.oid
                /\ db.items[i][n].record_info.prefix = db.items[j][n].record_info.prefix
                /\ db.items[i][n].record_info.expire = db.items[j][n].record_info.expire
                /\ db.items[i][n].record_info.kind = db.items[j][n].record_info.kind

\* C19: the type with_records(names...) returns declares exactly the requested
\* collections, each of the class the original type gave it; a database of that
\* type binds exactly those on start.
C19_NarrowedSchemaIsSubset ==
    (cls.state = "declared" /\ cls.narrowed) =>
        /\ DOMAIN cls.records = cls.requested
        /\ \A n \in DOMAIN cls.records :
              /\ cls.records[n].klass = cls.origin[n].klass
              /\ cls.records[n].field.kind = cls.origin[n].field.kind
        /\ (Started /\ ~db.sharded /\ Len(db.shards) > 0) => DOMAIN db.attrs = cls.requested

(***************************************************************************)
(* RedisRecord.store and load_one (record.py 63-115) on a record field     *)
(* whose codec is a field processor or a packet class.  key is a str or a  *)
(* list of strs, data one value or a list of values.  In the list/list     *)
(* case the values are dumped lazily, pair by pair, inside the loop that   *)
(* writes them.                                                            *)
(***************************************************************************)
\* store() and load_one() calls in one behaviour
MaxStoreCalls == 2

Storers == 1..2
RecordPrefix == <<"r", ":">>
\* full_key: prefix and key joined without a separator
full_key(prefix, key) == IF prefix # <<>> THEN prefix \o key ELSE key

\* the values handed to store are 0..3: 1 and 2 are two values of the field's type,
\* 3 is the empty value of that type (the str '' of a string processor, a
\* packet with no field set), 0 is an object the codec rejects
Digit(d) == CASE d = 1 -> "1" [] OTHER -> "2"
\* dump with a processor: check_py, then py_to_raw (the text of the value)
Dump(d) ==
    IF d = 0 THEN [exc |-> "TypeError", raw |-> <<>>]
    ELSE [exc |-> "", raw |-> IF d = 3 THEN <<>> ELSE <<Digit(d)>>]
\* dump: with a processor as above; of a packet py_data.dumps(), the fields
\* between braces
FieldDump(field, d) ==
    IF field.codec = "processor" THEN Dump(d)
    ELSE IF d = 0 THEN [exc |-> "AttributeError", raw |-> <<>>]
    ELSE [exc |-> "", raw |-> IF d = 3 THEN <<"{", "}">> ELSE <<"{", Digit(d), "}">>]

\* load: with a processor check_raw, then raw_to_py; of a packet
\* record_type.loads(raw)
FieldLoad(field, raw) ==
    IF field.codec = "processor"
    THEN IF raw = <<>> THEN [exc |-> "", py |-> 3]
         ELSE IF raw = <<"1">> THEN [exc |-> "", py |-> 1]
         ELSE IF raw = <<"2">> THEN [exc |-> "", py |-> 2]
         ELSE [exc |-> "TypeError", py |-> 0]
    ELSE IF raw = <<"{", "}">> THEN [exc |-> "", py |-> 3]
         ELSE IF raw = <<"{", "1", "}">> THEN [exc |-> "", py |-> 1]
         ELSE IF raw = <<"{", "2", "}">> THEN [exc |-> "", py |-> 2]
         ELSE [exc |-> "ValueError", py |-> 0]

PyStr(v) == [ty |-> "str", v |-> <<v>>]
PyList(v) == [ty |-> "list", v |-> v]
PyScalar(d) == [ty |-> "scalar", v |-> <<d>>]
KeyInputs == {PyStr(NameA)} \cup {PyList(l) : l \in {<<>>, <<NameA, NameB>>}}
DataInputs ==
    {PyScalar(d) : d \in {0, 1, 3}} \cup
    {PyList(l) : l \in {<<1>>, <<1, 2>>, <<1, 0>>}}

\* line 89: len(data) == len(key)
SameLengthAlways(key, data) == TRUE
SameLength(key, data) == Len(data) = Len(key)

\* SET k v [EX ex] [NX]
SetKeyXx(s, k, v, ex, nx) ==
    IF ~Exists(s, k) THEN s
    ELSE Put(s, k, StrEntry(v, IF Len(ex) = 0 THEN 0 ELSE ex[1]))
SetKey(s, k, v, ex, nx) ==
    IF nx /\ Exists(s, k) THEN s
    ELSE Put(s, k, StrEntry(v, IF Len(ex) = 0 THEN 0 ELSE ex[1]))

\* one pair of storage: the full key and the value still to dump (lazy) or
\* dumped already; a list of dumped values is no value SET takes
Pair(k, d, raw, form) == [k |-> k, d |-> d, raw |-> raw, form |-> form]

\* lines 87-101: the storage iterable, or the exception raised building it
Storage(field, key, data) ==
    IF key.ty = "list"
    THEN IF data.ty = "list"
         THEN IF SameLength(key.v, data.v)
              THEN [exc |-> "",
                    pairs |-> [i \in 1..Min(Len(key.v), Len(data.v)) |->
                                 Pair(full_key(field.prefix, key.v[i]), data.v[i], <<>>, "lazy")]]
              ELSE [exc |-> "AttributeError", pairs |-> <<>>]
         ELSE LET v == FieldDump(field, data.v[1])
              IN  IF v.exc # "" THEN [exc |-> v.exc, pairs |-> <<>>]
                  ELSE [exc |-> "",
                        pairs |-> [i \in 1..Len(key.v) |->
                                     Pair(full_key(field.prefix, key.v[i]), data.v[1], v.raw, "raw")]]
    ELSE IF data.ty = "list"
         THEN IF \E i \in 1..Len(data.v) : FieldDump(field, data.v[i]).exc # ""
              THEN [exc |-> FieldDump(field, 0).exc, pairs |-> <<>>]
              ELSE [exc |-> "",
                    pairs |-> <<Pair(full_key(field.prefix, key.v[1]), 0, <<>>, "list")>>]
         ELSE LET v == FieldDump(field, data.v[1])
              IN  IF v.exc # "" THEN [exc |-> v.exc, pairs |-> <<>>]
                  ELSE [exc |-> "",
                        pairs |-> <<Pair(full_key(field.prefix, key.v[1]), data.v[1], v.raw, "raw")>>]

\* what the last load_one of a caller was asked and gave: out is <<>> for
\* None and <<value>> otherwise
NoLoad == [done |-> FALSE, key |-> <<>>, out |-> <<>>, exc |-> ""]
\* clean: no other caller's SET reached a key of this frame's store since
\* that store returned
IdleStore ==
    [pc |-> "idle", key |-> PyList(<<>>), data |-> PyList(<<>>), nx |-> FALSE,
     pairs |-> <<>>, written |-> <<>>, issued |-> 0, result |-> "none",
     clean |-> TRUE, loaded |-> NoLoad]

\* the record fields: RedisRecordField(processor, 'r:') without expiry and
\* RedisRecordField(Packet, 'r:', 1)
RecordFields ==
    {[prefix |-> RecordPrefix, expire |-> <<>>, codec |-> "processor"],
     [prefix |-> RecordPrefix, expire |-> <<1>>, codec |-> "packet"]}

InitRecord ==
    /\ \E field \in RecordFields :
         /\ rec = [field |-> field, frame |-> [c \in Storers |-> IdleStore]]
         /\ store \in {<<>>, Put(<<>>, full_key(field.prefix, NameA),
                                  StrEntry(FieldDump(field, 2).raw, 0))}
    /\ calls = 0
    /\ fields = <<>> /\ origin = <<>> /\ lk = <<>> /\ hist = <<>>
    /\ cache = {} /\ sc = <<>> /\ cls = NoCls /\ db = NoDb /\ defs = <<>> /\ zs = <<>>

\* store(key, data, upsert) up to the loop of line 108
record_store(c, key, data, upsert) ==
    /\ rec.frame[c].pc = "idle"
    /\ calls < MaxStoreCalls
    /\ calls' = calls + 1
    /\ LET st == Storage(rec.field, key, data)
           f == [pc |-> "idle", key |-> key, data |-> data, nx |-> ~upsert,
                 pairs |-> st.pairs, written |-> <<>>, issued |-> 0,
                 result |-> "none", clean |-> TRUE, loaded |-> NoLoad]
       IN  rec' = [rec EXCEPT !.frame[c] =
                      IF st.exc # "" THEN [f EXCEPT !.result = st.exc]
                      ELSE IF Len(st.pairs) = 0 THEN [f EXCEPT !.result = "returned"]
                      ELSE [f EXCEPT !.pc = "loop"]]
    /\ UNCHANGED <<store, cache, sc, cls, db, lockVars, zs, defs>>

\* one turn of the loop of lines 108-109: the next pair is taken from storage
\* (a lazy value is dumped now) and SET is awaited
record_store_set(c) ==
    /\ rec.frame[c].pc = "loop"
    /\ \E fault \in {"none", "lost_request"} :
         LET f == rec.frame[c]
             p == Head(f.pairs)
             v == IF p.form = "lazy" THEN FieldDump(rec.field, p.d)
                  ELSE [exc |-> "", raw |-> p.raw]
             exc == IF v.exc # "" THEN v.exc
                    ELSE IF p.form = "list" THEN "DataError"
                    ELSE IF fault # "none" THEN "ConnectionError"
                    ELSE ""
             sent == v.exc = "" /\ p.form # "list"
             s2 == IF exc = "" THEN SetKey(store, p.k, v.raw, rec.field.expire, f.nx)
                   ELSE store
             g == [f EXCEPT !.pairs = Tail(@),
                            !.issued = IF sent THEN @ + 1 ELSE @,
                            !.written = IF s2 # store THEN Append(@, p.k) ELSE @]
             applied == exc = "" /\ ~(f.nx /\ Exists(store, p.k))
             \* the store call of caller d returned and this SET rewrites a key of it
             dirty(d) == /\ applied
                         /\ rec.frame[d].pc = "idle" /\ rec.frame[d].result = "returned"
                         /\ \E j \in 1..Len(rec.frame[d].key.v) :
                               full_key(rec.field.prefix, rec.frame[d].key.v[j]) = p.k
             own == IF exc # "" THEN [g EXCEPT !.pc = "idle", !.result = exc]
                    ELSE IF Len(g.pairs) = 0
                    THEN [g EXCEPT !.pc = "idle", !.result = "returned"]
                    ELSE g
         IN  /\ store' = s2
             /\ rec' = [rec EXCEPT !.frame =
                          [d \in Storers |->
                             IF d = c THEN own
                             ELSE IF dirty(d)
                             THEN [rec.frame[d] EXCEPT !.clean = FALSE]
                             ELSE rec.frame[d]]]
    /\ UNCHANGED <<calls, cache, sc, cls, db, lockVars, zs, defs>>

\* _load (lines 111-115): GET, then load of a reply that is truthy, else None
_load(field, s, k) ==
    LET data == Get(s, k).val
    IN  IF data # Nil /\ Len(data) > 0
        THEN LET v == FieldLoad(field, data)
             IN  [exc |-> v.exc, out |-> IF v.exc = "" THEN <<v.py>> ELSE <<>>]
        ELSE [exc |-> "", out |-> <<>>]

\* load_one(key) (lines 63-73): one GET of the full key; the frame keeps what
\* the caller's last store was
load_one(c, key) ==
    /\ rec.frame[c].pc = "idle"
    /\ calls < MaxStoreCalls
    /\ calls' = calls + 1
    /\ \E fault \in {"none", "lost_request"} :
         LET r == IF fault # "none" THEN [exc |-> "ConnectionError", out |-> <<>>]
                  ELSE _load(rec.field, store, full_key(rec.field.prefix, key))
         IN  rec' = [rec EXCEPT !.frame[c].loaded =
                        [done |-> TRUE, key |-> key, out |-> r.out, exc |-> r.exc]]
    /\ UNCHANGED <<store, cache, sc, cls, db, lockVars, zs, defs>>

NextRecord ==
    \/ \E c \in Storers, key \in KeyInputs, data \in DataInputs, upsert \in BOOLEAN :
          record_store(c, key, data, upsert)
    \/ \E c \in Storers : record_store_set(c)
    \/ \E c \in Storers, key \in {NameA, NameB} : load_one(c, key)

SpecRecord == InitRecord /\ [][NextRecord]_vars

\* C20: a store whose key list and value list differ in length ended with
\* AttributeError at the call, having issued no SET and written no key.
C20_LengthMismatchBeforeIO ==
    \A c \in Storers :
        LET f == rec.frame[c]
        IN  (f.key.ty = "list" /\ f.data.ty = "list" /\ Len(f.key.v) # Len(f.data.v)) =>
                /\ f.pc = "idle"
                /\ f.result \in {"none", "AttributeError"}
                /\ f.issued = 0
                /\ f.written = <<>>

\* C20 witness: store(['a', 'b'], [1]) ended with AttributeError while the
\* store stayed empty.
C20_Witness ==
    \E c \in Storers :
        /\ rec.frame[c].key.ty = "list" /\ rec.frame[c].data.ty = "list"
        /\ Len(rec.frame[c].key.v) = 2 /\ Len(rec.frame[c].data.v) = 1
        /\ rec.frame[c].result = "AttributeError"
        /\ store = <<>>

\* the call in frame f is a bulk store with as many values as keys
Bulk(f) == f.key.ty = "list" /\ f.data.ty = "list" /\ Len(f.key.v) = Len(f.data.v)
\* q is p with some elements left out
RECURSIVE IsSubSeq(_, _)
IsSubSeq(q, p) ==
    IF q = <<>> THEN TRUE
    ELSE IF p = <<>> THEN FALSE
    ELSE IF Head(q) = Head(p) THEN IsSubSeq(Tail(q), Tail(p))
    ELSE IsSubSeq(q, Tail(p))

C22_StoreLoadRoundTrip ==
    \A c \in Storers :
        LET f == rec.frame[c]
        IN  ( /\ f.result = "returned" /\ f.key.ty = "str" /\ f.data.ty = "scalar"
              /\ ~f.nx /\ f.clean
              /\ f.loaded.done /\ f.loaded.exc = "" /\ f.loaded.key = f.key.v[1] )
            => f.loaded.out = f.data.v

\* C27: a SET of a store with upsert=True that does not raise leaves the key
\* holding the value, whether or not the key existed; a SET of a store with
\* upsert=False does not create a key that did not exist.
C27_UpsertDecidesInsert ==
    [][\A c \in Storers :
          ( /\ rec.frame[c].pc = "loop"
            /\ rec'.frame[c] # rec.frame[c]
            /\ rec'.frame[c].result \in {"none", "returned"} ) =>
            LET f == rec.frame[c]
                p == Head(f.pairs)
                raw == IF p.form = "lazy" THEN FieldDump(rec.field, p.d).raw ELSE p.raw
            IN  /\ ~f.nx => (Exists(store', p.k) /\ store'[p.k].v = raw)
                /\ (f.nx /\ ~Exists(store, p.k)) => ~Exists(store', p.k)]_vars

\* this step changes handle h into one whose acquire had such arguments: it
\* is that call of acquire
InvalidAcquire(h) == lk'[h] # lk[h] /\ lk'[h].op = "acquire" /\ lk'[h].invalid

C24_NonBlockingNeverWaits ==
    [][\A h \in Handles :
          /\ (lk'[h].op = "acquire" /\ ~lk'[h].blocking) => lk'[h].pc \in {"idle", "set"}
          /\ ( /\ lk[h].op = "acquire" /\ lk[h].pc = "set" /\ ~lk[h].blocking
               /\ lk'[h] # lk[h] ) =>
               /\ lk'[h].pc = "idle"
               /\ IF Exists(store, lk[h]._name)
                  THEN lk'[h].result = "RedisLockError" /\ store' = store
                  ELSE /\ lk'[h].result = "True"
                       /\ store' = Put(store, lk[h]._name,
                                       StrEntry(lk[h]._id, lk[h]._expire))]_vars

\* C24 witness: the second call of the behaviour, a non-blocking acquire of
\* a lock held by another handle, ended with RedisLockError.
C24_Witness ==
    \E h \in Handles :
        /\ calls = 2
        /\ lk[h].op = "acquire" /\ lk[h].pc = "idle" /\ ~lk[h].invalid
        /\ lk[h].result = "RedisLockError"
        /\ KeyState(h) = "other"

\* C25: a release() on a handle whose id the lock key did not hold (the key
\* absent, expired or another's, also after an acquire of the handle that
\* timed out) ended with RedisLockError; a release() that returned found the
\* key holding the handle's id and left it free of it.
C25_ReleaseRaisesUnlessHeld ==
    \A h \in Handles :
        ReleaseDone(h) =>
            /\ lk[h].relKey # "own" => lk[h].result = "RedisLockError"
            /\ lk[h].result = "ok" => (lk[h].relKey = "own" /\ KeyState(h) # "own")

\* C26: the script of reset() removes the lock key, whoever held it, and the
\* call goes on to its end, where the handle's acquired and timed-out flags
\* are cleared.
C26_ResetDeletesLock ==
    [][\A h \in Handles :
          /\ (calls' = calls + 1 /\ reset(h)) =>
                /\ lk'[h].pc = "delete_signal"
                /\ ~Exists(store', lk[h]._name)
          /\ (lk[h].op = "reset" /\ lk[h].pc = "delete_signal" /\ lk'[h].pc = "idle") =>
                /\ lk'[h].result = "ok"
                /\ ~lk'[h]._acquired /\ ~lk'[h]._timed_out]_vars

\* C28: every descriptor of a declared database type is wired to the
\* collection class of its own kind; a set descriptor is not wired to
\* RedisRecord.
C28_DescriptorsWiredByKind ==
    cls.state = "declared" =>
        \A n \in DOMAIN cls.records :
            LET kind == cls.records[n].field.kind
            IN  cls.records[n].klass = CASE kind = "lock" -> "RedisLock"
                                         [] kind = "record" -> "RedisRecord"
                                         [] kind = "script" -> "RedisScript"
                                         [] kind = "set" -> "RedisSet"

(***************************************************************************)
(* Script definitions: RedisScriptData and the script field, as script.py  *)
(* and as script_field.py (the field database.py declares) build them.  A  *)
(* script data object has the attributes code and code_sha1 (<<>>: the     *)
(* attribute is missing) and is, or is not, an instance of RedisScriptData;*)
(* a field holds one in _script_data (<<>>: never assigned).               *)
(***************************************************************************)
\* script fields constructed in one behaviour
MaxDefs == 3

Modules == {"script", "script_field"}

ScriptData(code, code_sha1, isdata) ==
    [code |-> code, code_sha1 |-> code_sha1, isdata |-> isdata]
\* class X(RedisScriptData): code = ... ; X(): ScriptDataMeta.__new__ adds the
\* digest of the code to the namespace of the class
ScriptDataMeta(code) == ScriptData(<<code>>, <<Sha1(code)>>, TRUE)
\* RedisScriptData.from_data: script.py fills an instance; script_field.py
\* builds a class with type() on the bases of RedisScriptData, past the
\* metaclass, and the field instantiates it
from_data(module, script_data) ==
    IF module = "script"
    THEN ScriptData(<<script_data>>, <<Sha1(script_data)>>, TRUE)
    ELSE ScriptData(<<script_data>>, <<>>, FALSE)

ScriptField(module, how, data, exc) ==
    [module |-> module, how |-> how, _script_data |-> data, exc |-> exc]
\* the field's __init__ given script data
FieldOfData(module, how, data) ==
    IF data.isdata THEN ScriptField(module, how, <<data>>, "")
    ELSE ScriptField(module, how, <<>>, "TypeError")

\* what RedisScript.__call__ reads from its field: code_sha1 and code
Attr(f, v) ==
    IF f._script_data = <<>> \/ v = <<>> THEN [exc |-> "AttributeError", v |-> <<>>]
    ELSE [exc |-> "", v |-> v]
code_sha1(f) == Attr(f, IF f._script_data = <<>> THEN <<>> ELSE f._script_data[1].code_sha1)
code(f) == Attr(f, IF f._script_data = <<>> THEN <<>> ELSE f._script_data[1].code)

InitDef ==
    /\ defs = <<>> /\ zs = <<>>
    /\ fields = <<>> /\ origin = <<>> /\ lk = <<>> /\ hist = <<>>
    /\ store = <<>> /\ cache = {} /\ calls = 0 /\ sc = <<>>
    /\ cls = NoCls /\ db = NoDb /\ rec = <<>>

\* a field on an instance of a declared script class
def_class(module, source) ==
    /\ Len(defs) < MaxDefs
    /\ defs' = Append(defs, FieldOfData(module, "class", ScriptDataMeta(source)))
    /\ UNCHANGED <<lockVars, zs, store, cache, calls, sc, dbVars>>
\* a field on RedisScriptData.from_data(source), as script.py returns it
def_from_data(source) ==
    /\ Len(defs) < MaxDefs
    /\ defs' = Append(defs, FieldOfData("script", "from_data", from_data("script", source)))
    /\ UNCHANGED <<lockVars, zs, store, cache, calls, sc, dbVars>>
\* a field on the path of a script file with this text (a script or
\* nothing): _script_data is assigned when the text is not empty
def_from_path(module, text) ==
    /\ Len(defs) < MaxDefs
    /\ defs' = Append(defs,
                 IF text # ""
                 THEN ScriptField(module, "path", <<from_data(module, text)>>, "")
                 ELSE ScriptField(module, "path", <<>>, ""))
    /\ UNCHANGED <<lockVars, zs, store, cache, calls, sc, dbVars>>
\* clone() of a field constructed before: a field of the same class on
\* self._script_data
def_clone(i) ==
    /\ Len(defs) < MaxDefs
    /\ i \in DOMAIN defs
    /\ defs[i].exc = ""
    /\ defs' = Append(defs,
                 IF defs[i]._script_data = <<>>
                 THEN ScriptField(defs[i].module, "clone", <<>>, "AttributeError")
                 ELSE FieldOfData(defs[i].module, "clone", defs[i]._script_data[1]))
    /\ UNCHANGED <<lockVars, zs, store, cache, calls, sc, dbVars>>

NextDef ==
    \/ \E module \in Modules, source \in Scripts : def_class(module, source)
    \/ \E source \in Scripts : def_from_data(source)
    \/ \E module \in Modules, text \in Scripts \cup {""} : def_from_path(module, text)
    \/ \E i \in 1..MaxDefs : def_clone(i)

SpecDef == InitDef /\ [][NextDef]_vars

\* C29: of every script field that was constructed, however its script data
\* was built, the digest the executor reads is the hash of the source it
\* reads, as long as the field lives.
C29_DigestIsHashOfSource ==
    \A i \in DOMAIN defs :
        defs[i].exc = "" =>
            /\ code(defs[i]).exc = ""
            /\ code_sha1(defs[i]).exc = ""
            /\ code_sha1(defs[i]).v = <<Sha1(code(defs[i]).v[1])>>

\* C30: the script call of every release and reset carries key count 2 with
\* the lock key as KEYS[1] and the signal key as KEYS[2]; release passes the
\* handle's id as ARGV[1], reset passes no value.
C30_ScriptCalledWithTwoKeys ==
    \A h \in Handles :
        lk[h].sent.made =>
            /\ lk[h].sent.exc = ""
            /\ lk[h].sent.keys_num = 2
            /\ lk[h].sent.KEYS = <<lk[h]._name, lk[h]._signal>>
            /\ lk[h].sent.ARGV = IF lk[h].op = "release" THEN <<lk[h]._id>> ELSE <<>>

(***************************************************************************)
(* RedisSortedSet.incr (sorted_set.py).  data is one (amount, value) tuple *)
(* or a list of them.  zs holds the field of the sorted set, the frame of  *)
(* the running incr call and the ZINCRBY commands the server has received  *)
(* from it; amounts and members are written as the text sent on the wire.  *)
(***************************************************************************)
\* line 158: a group of futures is awaited when its length reaches a
\* multiple of this
GroupSize == 100
MaxIncrCalls == 2

IncrInputs ==
    LET Pairs == {<<amount, d>> : amount \in {1, 2}, d \in {0, 1, 3}}
    IN  {PyScalar(p) : p \in Pairs} \cup
        {PyList(l) : l \in {<<>>} \cup {<<p>> : p \in Pairs}
                          \cup {<<p, q>> : p \in Pairs, q \in Pairs}}

\* the (amount, value) pairs of data, in order
PairsOf(data) == IF data.ty = "list" THEN data.v ELSE <<data.v[1]>>

\* lines 56-65: the dict {dumper(value): amount}, in insertion order: a
\* value dumped twice keeps its first position and its last amount; or the
\* exception of the first dump that fails
dump_with_scores(field, data) ==
    LET pairs == PairsOf(data)
        dumped(i) == FieldDump(field, pairs[i][2])
        bad == {i \in 1..Len(pairs) : dumped(i).exc # ""}
        First(i) == \A j \in 1..(i - 1) : dumped(j).raw # dumped(i).raw
        LastOf(i) == CHOOSE j \in 1..Len(pairs) :
                      /\ dumped(j).raw = dumped(i).raw
                      /\ \A m \in (j + 1)..Len(pairs) : dumped(m).raw # dumped(i).raw
        idx == SelectSeq([i \in 1..Len(pairs) |-> i], First)
    IN  IF bad # {}
        THEN [exc |-> dumped(CHOOSE i \in bad : \A j \in bad : i <= j).exc,
              store |-> <<>>]
        ELSE [exc |-> "",
              store |-> [n \in 1..Len(idx) |->
                            [k |-> dumped(idx[n]).raw, v |-> pairs[LastOf(idx[n])][1]]]]

IdleIncr == [pc |-> "idle", data |-> PyList(<<>>), store |-> <<>>,
             futures |-> <<>>, sent |-> <<>>, result |-> ""]

InitIncr ==
    /\ \E field \in RecordFields : zs = [field |-> field, frame |-> IdleIncr]
    /\ calls = 0
    /\ store = <<>> /\ cache = {} /\ sc = <<>> /\ cls = NoCls /\ db = NoDb
    /\ rec = <<>> /\ defs = <<>>
    /\ fields = <<>> /\ origin = <<>> /\ lk = <<>> /\ hist = <<>>

\* line 154: store = self._record_info.dump_with_scores(data)
incr(data) ==
    /\ zs.frame.pc = "idle"
    /\ calls < MaxIncrCalls
    /\ calls' = calls + 1
    /\ LET d == dump_with_scores(zs.field, data)
           f == [IdleIncr EXCEPT !.data = data, !.store = d.store]
       IN  zs' = [zs EXCEPT !.frame =
                    IF d.exc # "" THEN [f EXCEPT !.result = d.exc]
                    ELSE IF d.store = <<>> THEN [f EXCEPT !.result = "returned"]
                    ELSE [f EXCEPT !.pc = "loop"]]
    /\ UNCHANGED <<store, cache, sc, cls, db, rec, defs, lockVars>>

\* lines 156-159: for amount, value in store: iterating the dict yields its
\* keys, and each key is unpacked into the two names; a key that is not of
\* two elements raises ValueError and the futures collected are dropped
incr_append ==
    /\ zs.frame.pc = "loop"
    /\ LET f == zs.frame
           k == Head(f.store).k
           futures == Append(f.futures, [amount |-> <<k[1]>>, value |-> <<k[2]>>])
       IN  zs' = [zs EXCEPT !.frame =
                    IF Len(k) # 2
                    THEN [f EXCEPT !.pc = "idle", !.result = "ValueError"]
                    ELSE [f EXCEPT !.futures = futures, !.store = Tail(f.store),
                                   !.pc = IF \/ Len(futures) % GroupSize = 0
                                             \/ Tail(f.store) = <<>>
                                          THEN "gather" ELSE "loop"]]
    /\ UNCHANGED <<calls, store, cache, sc, cls, db, rec, defs, lockVars>>

\* lines 159-163: await asyncio.gather(*futures); futures = []: every
\* command of the group is sent, and the reply to an amount that is not a
\* number is an error that gather raises
incr_gather ==
    /\ zs.frame.pc = "gather"
    /\ LET f == zs.frame
           g == [f EXCEPT !.sent = f.sent \o f.futures, !.futures = <<>>]
           IsFloat(amount) == amount \in {<<"1">>, <<"2">>}
       IN  zs' = [zs EXCEPT !.frame =
                    IF \E i \in 1..Len(f.futures) : ~IsFloat(f.futures[i].amount)
                    THEN [g EXCEPT !.pc = "idle", !.result = "ResponseError"]
                    ELSE IF f.store = <<>>
                    THEN [g EXCEPT !.pc = "idle", !.result = "returned"]
                    ELSE [g EXCEPT !.pc = "loop"]]
    /\ UNCHANGED <<calls, store, cache, sc, cls, db, rec, defs, lockVars>>

NextIncr ==
    \/ \E data \in IncrInputs : incr(data)
    \/ incr_append
    \/ incr_gather

SpecIncr == InitIncr /\ [][NextIncr]_vars

\* C31: incr issues exactly one score increment per supplied (amount, value)
\* pair, with that pair's amount and encoded value; never more than
\* GroupSize increments are collected without having been awaited; and when
\* incr has ended (every value being one the field can dump) it has
\* returned, and nothing it collected is left un-awaited.
C31_OneIncrementPerPair ==
    LET f == zs.frame
        pairs == PairsOf(f.data)
        want == [i \in 1..Len(pairs) |->
                    [amount |-> <<Digit(pairs[i][1])>>,
                     value |-> FieldDump(zs.field, pairs[i][2]).raw]]
        Count(seq, c) == Cardinality({i \in 1..Len(seq) : seq[i] = c})
    IN  /\ Len(f.futures) <= GroupSize
        /\ (/\ f.result # ""
            /\ \A i \in 1..Len(pairs) : FieldDump(zs.field, pairs[i][2]).exc = "")
           => /\ f.result = "returned"
              /\ f.futures = <<>>
              /\ Len(f.sent) = Len(want)
              /\ \A i \in 1..Len(want) : Count(f.sent, want[i]) = Count(want, want[i])


C33_TimedOutHandleLeavesKey ==
    [][\A h \in Handles :
          LET k == lk[h]._name
              Same == /\ Exists(store', k) <=> Exists(store, k)
                      /\ Exists(store, k) => store'[k] = store[k]
          IN  /\ ( /\ lk[h].op = "acquire" /\ lk[h].pc \in {"set", "blpop"}
                   /\ lk'[h] # lk[h] /\ ~Same )
                  => (lk'[h].pc = "idle" /\ lk'[h].result = "True")
              /\ ( /\ lk[h].pc = "set" /\ lk'[h].pc = "idle"
                   /\ lk'[h].result = "RedisLockTimeoutError" )
                  => (Same /\ lk[h].blocking /\ lk'[h]._timed_out)
              /\ ( /\ lk[h].pc = "idle" /\ lk[h].op = "acquire"
                   /\ lk[h].result = "RedisLockTimeoutError"
                   /\ lk'[h].op = "release" )
                  => (Same /\ lk'[h].pc = "delete_signal")
              /\ ( /\ lk[h].pc = "delete_signal" /\ lk[h].op = "release"
                   /\ lk[h]._timed_out /\ lk'[h].pc = "idle" )
                  => (Same /\ lk'[h].result = "ok")]_vars
\* C33 witness: a handle whose acquire timed out has released, and the lock
\* key is still held by the other handle that acquired it.
C33_Witness ==
    \E g, h \in Handles :
        /\ SameLock(g, h)
        /\ ReleaseDone(h) /\ lk[h]._timed_out /\ lk[h].result = "ok"
        /\ lk[h].relKey = "other"
        /\ Held(store, lk[h]._name) /\ store[lk[h]._name].v = lk[g]._id
        /\ lk[g]._acquired


\* C34: after any sequence of start and stop calls on a sharded database,
\* once a start has completed the number of shard groups is the number of
\* configured connections (a restart does not add groups), so that the
\* shards count and the modulus of the hashed routing, the number of
\* groups, agree.
C34_RestartKeepsGroupCount ==
    (db.state \in {"running", "stopped"} /\ db.sharded /\ db.starts >= 1) =>
        Len(db.items) = ShardCount

====
